---- MODULE Spec2Model ----
(***************************************************************************)
(* Model of the x86-64 pKVM hypercall PCI transport for VirtIO             *)
(* (src/transport/x86_64.rs): capability resolution into HypIoRegion       *)
(* windows, the bounds-checked typed window accesses, and the transport    *)
(* protocol built on them.                                                 *)
(*                                                                         *)
(* Unsigned integers are little-endian byte sequences of their width       *)
(* (u8 = 1 byte, u16 = 2, u32 = 4, u64 and usize = 8), so that widths,     *)
(* truncating casts and wrap-around are exact.                             *)
(***************************************************************************)
EXTENDS Integers, Sequences, FiniteSets, TLC

VARIABLES
    self,             \* the HypPciTransport built by new()
    dev,              \* the device's register state behind the hypercall channel
    overflow_checks,  \* build profile: integer overflow panics (TRUE) or wraps
    phase,            \* "idle", "running", "done" or "panicked"
    call,             \* the transport operation in progress or just finished
    log,              \* the hypercalls that operation has issued, in order
    ret,              \* what that operation returned
    usedSeen,         \* queues for which queue_used has returned true
    written,          \* the features last written by write_driver_features
    drained,          \* ack_interrupt has run and no interrupt was raised since
    lastSet,          \* the queue the operation before this one set up, or -1
    res_in,           \* input of the last get_bar_region call
    res_out,          \* its result
    device_function,  \* the PCI function new() is called on
    built,            \* what new() returned for it
    peer              \* a second caller driving the same device

vars == <<self, dev, overflow_checks, phase, call, log, ret, usedSeen, written,
          drained, lastSet, res_in, res_out, device_function, built, peer>>

(***************************************************************************)
(* Bounds of the model.                                                    *)
(***************************************************************************)
\* Number of virtqueues the device implements; queue indices are 0..MaxQueue-1.
MaxQueue == 2

Queues == 0 .. (MaxQueue - 1)

(***************************************************************************)
(* Fixed-width unsigned integers as little-endian byte sequences.          *)
(***************************************************************************)
\* The len-byte little-endian encoding of the natural number n < 2^31.
U(n, len) ==
    [i \in 1 .. len |->
        CASE i = 1 -> n % 256
          [] i = 2 -> (n \div 256) % 256
          [] i = 3 -> (n \div 65536) % 256
          [] i = 4 -> n \div 16777216
          [] OTHER -> 0]

U8(n) == U(n, 1)
U16(n) == U(n, 2)
U32(n) == U(n, 4)
U64(n) == U(n, 8)

Zeros(len) == [i \in 1 .. len |-> 0]

\* Zero-extending cast to a wider type (u16 -> usize, u32 as usize, ...).
Widen(b, len) == b \o Zeros(len - Len(b))

\* Truncating cast to a narrower type (u64 as u32, u32 as u16, ... as u8).
Truncate(b, len) == SubSeq(b, 1, len)

\* x >> 32 on a u64, as a u64.
Shr32(b) == SubSeq(b, 5, 8) \o Zeros(4)

ByteAt(b, i) == IF i \in 1 .. Len(b) THEN b[i] ELSE 0

\* An integer of up to 8 bytes as three limbs: bits 0..23, 24..47, 48..63.
Lo(b) == ByteAt(b, 1) + 256 * ByteAt(b, 2) + 65536 * ByteAt(b, 3)
Mid(b) == ByteAt(b, 4) + 256 * ByteAt(b, 5) + 65536 * ByteAt(b, 6)
Hi(b) == ByteAt(b, 7) + 256 * ByteAt(b, 8)

\* The natural number a byte sequence encodes, when it is below 2^24.
Small(b) == Lo(b)

\* The 9 bytes of the number with limbs lo, mid, hi (each may exceed its
\* width or be negative by one borrow; carries ripple upwards).
FromLimbs(lo, mid, hi) ==
    LET m == mid + (lo \div 16777216)
        h == hi + (m \div 16777216)
        l0 == lo % 16777216
        m0 == m % 16777216
    IN << l0 % 256, (l0 \div 256) % 256, l0 \div 65536,
          m0 % 256, (m0 \div 256) % 256, m0 \div 65536,
          h % 256, (h \div 256) % 256, (h \div 65536) % 256 >>

\* a + b as 9 bytes, for a, b of the same length of at most 8 bytes.
Sum(a, b) == FromLimbs(Lo(a) + Lo(b), Mid(a) + Mid(b), Hi(a) + Hi(b))

\* a + b wrapping at the width of a, and whether it overflows that width.
WrapAdd(a, b) == SubSeq(Sum(a, b), 1, Len(a))
AddOverflows(a, b) == Sum(a, b)[Len(a) + 1] # 0

\* a - b wrapping at the width of a.
WrapSub(a, b) ==
    SubSeq(FromLimbs(Lo(a) - Lo(b), Mid(a) - Mid(b), Hi(a) - Hi(b)), 1, Len(a))

\* a < b and a <= b for a, b of the same length of at most 8 bytes.
Lt(a, b) ==
    \/ Hi(a) < Hi(b)
    \/ Hi(a) = Hi(b) /\ Mid(a) < Mid(b)
    \/ Hi(a) = Hi(b) /\ Mid(a) = Mid(b) /\ Lo(a) < Lo(b)

Le(a, b) == ~Lt(b, a)

RECURSIVE MulByte(_, _, _)
\* a * k + c for a byte k, wrapping at Len(a) bytes.
MulByte(a, k, c) ==
    IF a = <<>> THEN <<>>
    ELSE LET p == Head(a) * k + c
         IN <<p % 256>> \o MulByte(Tail(a), k, p \div 256)

\* x * 256, wrapping at Len(x) bytes.
ShiftByte(x) == SubSeq(<<0>> \o x, 1, Len(x))

RECURSIVE MulBytes(_, _)
\* a * b, wrapping at Len(a) bytes (b is consumed byte by byte).
MulBytes(a, b) ==
    IF b = <<>> THEN Zeros(Len(a))
    ELSE WrapAdd(MulByte(a, Head(b), 0), ShiftByte(MulBytes(a, Tail(b))))

\* x % align for a power-of-two align <= 256 (only the low byte matters).
ModSmall(b, align) == b[1] % align

\* The bytes b[off+1 .. off+size], reading 0 beyond the end of b.
Slice(b, off, size) == [i \in 1 .. size |-> ByteAt(b, off + i)]

\* b with the bytes at off+1 .. off+Len(data) replaced by data.
Patch(b, off, data) ==
    [i \in 1 .. Len(b) |->
        IF i > off /\ i <= off + Len(data) THEN data[i - off] ELSE b[i]]

(***************************************************************************)
(* Program constants.                                                      *)
(***************************************************************************)
\* The maximum number of bytes of a single IO hypercall.
HYP_IO_MAX == 8

VIRTIO_VENDOR_ID == 6900          \* 0x1af4
PCI_CAP_ID_VNDR == 9
VIRTIO_PCI_CAP_COMMON_CFG == 1
VIRTIO_PCI_CAP_NOTIFY_CFG == 2
VIRTIO_PCI_CAP_ISR_CFG == 3
VIRTIO_PCI_CAP_DEVICE_CFG == 4

\* The fields of CommonCfg in layout order, with byte offset and size.
CommonCfg == <<
    [name |-> "device_feature_select", off |-> 0,  size |-> 4],
    [name |-> "device_feature",        off |-> 4,  size |-> 4],
    [name |-> "driver_feature_select", off |-> 8,  size |-> 4],
    [name |-> "driver_feature",        off |-> 12, size |-> 4],
    [name |-> "msix_config",           off |-> 16, size |-> 2],
    [name |-> "num_queues",            off |-> 18, size |-> 2],
    [name |-> "device_status",         off |-> 20, size |-> 1],
    [name |-> "config_generation",     off |-> 21, size |-> 1],
    [name |-> "queue_select",          off |-> 22, size |-> 2],
    [name |-> "queue_size",            off |-> 24, size |-> 2],
    [name |-> "queue_msix_vector",     off |-> 26, size |-> 2],
    [name |-> "queue_enable",          off |-> 28, size |-> 2],
    [name |-> "queue_notify_off",      off |-> 30, size |-> 2],
    [name |-> "queue_desc",            off |-> 32, size |-> 8],
    [name |-> "queue_driver",          off |-> 40, size |-> 8],
    [name |-> "queue_device",          off |-> 48, size |-> 8] >>

\* size_of::<CommonCfg>() and align_of::<CommonCfg>().
CommonCfgType == [size |-> 56, align |-> 8]

\* core::mem::offset_of!(CommonCfg, field), as a usize.
FieldNames == { CommonCfg[i].name : i \in 1 .. Len(CommonCfg) }

Field == [n \in FieldNames |->
            CommonCfg[CHOOSE i \in 1 .. Len(CommonCfg) : CommonCfg[i].name = n]]

FieldOf(field) == Field[field]

\* The field that starts at each byte offset of CommonCfg (size 0: none).
FieldAt == [off \in 0 .. 55 |->
              IF \E i \in 1 .. Len(CommonCfg) : CommonCfg[i].off = off
              THEN CommonCfg[CHOOSE i \in 1 .. Len(CommonCfg) : CommonCfg[i].off = off]
              ELSE [name |-> "", off |-> off, size |-> 0]]

\* An access of size bytes at offset off is exactly one field of CommonCfg.
IsField(off, size) == off \in DOMAIN FieldAt /\ FieldAt[off].size = size

offset_of(field) == U64(FieldOf(field).off)

(***************************************************************************)
(* The device behind the hypercall channel.  It stores register writes,    *)
(* banks the queue_* fields by queue_select, echoes the driver feature     *)
(* words as device feature words under the same select index, and clears   *)
(* its ISR status when that register is read.                              *)
(***************************************************************************)
\* The feature word index a select register names, or -1 for none.
SelIndex(sel) == IF sel = U32(0) THEN 0 ELSE IF sel = U32(1) THEN 1 ELSE -1

\* The value the device presents for a CommonCfg field.
FieldGet(d, field) ==
    LET q == Small(d.queue_select)
        banked(f) == IF q \in Queues THEN d.queue[q][f] ELSE Zeros(FieldOf(f).size)
        feature(sel) == IF SelIndex(sel) >= 0 THEN d.feature[SelIndex(sel)] ELSE U32(0)
    IN CASE field = "device_feature_select" -> d.device_feature_select
         [] field = "device_feature" -> feature(d.device_feature_select)
         [] field = "driver_feature_select" -> d.driver_feature_select
         [] field = "driver_feature" -> feature(d.driver_feature_select)
         [] field = "msix_config" -> U16(0)
         [] field = "num_queues" -> U16(MaxQueue)
         [] field = "device_status" -> d.device_status
         [] field = "config_generation" -> d.config_generation
         [] field = "queue_select" -> d.queue_select
         [] field = "queue_msix_vector" -> U16(0)
         [] OTHER -> banked(field)

\* The device after the driver stored value in a CommonCfg field; fields the
\* device owns (device_feature, num_queues, config_generation,
\* queue_notify_off) and the unused MSI-X fields keep their value.
FieldSet(d, field, value) ==
    LET q == Small(d.queue_select)
    IN CASE field \in {"device_feature_select", "driver_feature_select",
                       "device_status", "queue_select"} ->
                [d EXCEPT ![field] = value]
         [] field = "driver_feature" ->
                IF SelIndex(d.driver_feature_select) >= 0
                THEN [d EXCEPT !.feature[SelIndex(d.driver_feature_select)] = value]
                ELSE d
         [] field \in {"queue_size", "queue_enable", "queue_desc",
                       "queue_driver", "queue_device"} ->
                IF q \in Queues THEN [d EXCEPT !.queue[q][field] = value] ELSE d
         [] OTHER -> d

RECURSIVE CommonImage(_, _)
\* The bytes of the common configuration structure from field i on.
CommonImage(d, i) ==
    IF i > Len(CommonCfg) THEN <<>>
    ELSE FieldGet(d, CommonCfg[i].name) \o CommonImage(d, i + 1)

RECURSIVE CommonStore(_, _, _, _, _)
\* The device after a write of size bytes at byte offset off of the common
\* configuration structure: every field the write touches, from field i on,
\* takes its bytes from the patched image.
CommonStore(d, image, off, size, i) ==
    IF i > Len(CommonCfg) THEN d
    ELSE LET f == CommonCfg[i]
             touched == off < f.off + f.size /\ f.off < off + size
             d1 == IF touched
                   THEN FieldSet(d, f.name, Slice(image, f.off, f.size))
                   ELSE d
         IN CommonStore(d1, image, off, size, i + 1)

\* Which register window of the transport t an absolute address falls in.
InRegion(address, r) == Lt(WrapSub(address, r.paddr), r.size)

WindowOf(t, address) ==
    IF InRegion(address, t.common_cfg) THEN "common_cfg"
    ELSE IF InRegion(address, t.notify_region) THEN "notify_region"
    ELSE IF InRegion(address, t.isr_status) THEN "isr_status"
    ELSE IF t.config_space.tag = "Some" /\ InRegion(address, t.config_space.v)
         THEN "config_space"
    ELSE "none"

\* The byte offset of address inside window win of t, as a natural number.
OffsetIn(t, win, address) ==
    LET r == IF win = "config_space" THEN t.config_space.v ELSE t[win]
    IN Small(WrapSub(address, r.paddr))

\* The device's answer to a read of size bytes at address: [dev, data].
DeviceRead(t, d, address, size) ==
    LET win == WindowOf(t, address)
        off == OffsetIn(t, win, address)
    IN CASE win = "common_cfg" ->
                [dev |-> d,
                 data |-> IF IsField(off, size) THEN FieldGet(d, FieldAt[off].name)
                          ELSE Slice(CommonImage(d, 1), off, size)]
         [] win = "isr_status" ->
                [dev |-> IF off = 0 THEN [d EXCEPT !.isr = U8(0)] ELSE d,
                 data |-> Slice(d.isr, off, size)]
         [] win = "config_space" ->
                [dev |-> d, data |-> Slice(d.config, off, size)]
         [] OTHER -> [dev |-> d, data |-> Zeros(size)]

\* The device after a write of data (size bytes) at address.
DeviceWrite(t, d, address, size, data) ==
    LET win == WindowOf(t, address)
        off == OffsetIn(t, win, address)
    IN CASE win = "common_cfg" ->
                IF IsField(off, size) THEN FieldSet(d, FieldAt[off].name, data)
                ELSE CommonStore(d, Patch(CommonImage(d, 1), off, data), off, size, 1)
         [] win = "config_space" ->
                [d EXCEPT !.config = Patch(d.config, off, data)]
         [] OTHER -> d

(***************************************************************************)
(* Bitwise operations on bytes and byte sequences.                         *)
(***************************************************************************)
RECURSIVE BitOp(_, _, _, _)
\* Bitwise and (op = "and") or or (op = "or") of the low n bits of x and y.
BitOp(op, x, y, n) ==
    IF n = 0 THEN 0
    ELSE LET bx == x % 2
             by == y % 2
             bit == IF op = "and" THEN bx * by ELSE (bx + by + 1) \div 2
         IN bit + 2 * BitOp(op, x \div 2, y \div 2, n - 1)

And(a, b) == [i \in 1 .. Len(a) |-> BitOp("and", a[i], b[i], 8)]
Or(a, b) == [i \in 1 .. Len(a) |-> BitOp("or", a[i], b[i], 8)]

\* x << 32 on a u64.
Shl32(b) == Zeros(4) \o SubSeq(b, 1, 4)


(***************************************************************************)
(* The hypercall channel and the register windows.  An access yields       *)
(* either a panic or the device after the hypercall together with the      *)
(* hypercall's log entry [kind, address, size, data].                      *)
(***************************************************************************)
None == [tag |-> "None"]
Some(x) == [tag |-> "Some", v |-> x]
Ok(x) == [tag |-> "Ok", v |-> x]
Err(e) == [tag |-> "Err", e |-> e]

\* A failed assert!, or an arithmetic overflow in a build that checks it.
Panic == [panicked |-> TRUE]

\* usize addition a + b overflows and the build panics on overflow.
OverflowPanics(oc, a, b) == oc /\ AddOverflows(a, b)

\* Asks the hypervisor to perform an IO read; data is the u64 it returns.
hyp_io_read(t, d, address, size) ==
    LET r == DeviceRead(t, d, address, size)
    IN [panicked |-> FALSE, dev |-> r.dev,
        entry |-> [kind |-> "read", address |-> address, size |-> size,
                   data |-> Widen(r.data, 8)]]

\* Asks the hypervisor to perform an IO write of the low size bytes of data.
hyp_io_write(t, d, address, size, data) ==
    [panicked |-> FALSE,
     dev |-> DeviceWrite(t, d, address, size, Truncate(data, size)),
     entry |-> [kind |-> "write", address |-> address, size |-> size,
                data |-> Truncate(data, size)]]

\* HypIoRegion::read::<T>(offset) with size = size_of::<T>(); the entry's
\* data is the T read from the prefix of the u64.
HypIoRegion_read(t, d, oc, region, offset, size) ==
    IF OverflowPanics(oc, offset, U64(size)) THEN Panic
    ELSE IF ~Le(WrapAdd(offset, U64(size)), region.size) THEN Panic
    ELSE IF ~(size < HYP_IO_MAX) THEN Panic
    ELSE IF OverflowPanics(oc, region.paddr, offset) THEN Panic
    ELSE [hyp_io_read(t, d, WrapAdd(region.paddr, offset), size)
            EXCEPT !.entry.data = Truncate(@, size)]

\* HypIoRegion::write::<T>(offset, value) with size_of::<T>() = Len(value).
HypIoRegion_write(t, d, oc, region, offset, value) ==
    IF OverflowPanics(oc, offset, U64(Len(value))) THEN Panic
    ELSE IF ~Le(WrapAdd(offset, U64(Len(value))), region.size) THEN Panic
    ELSE IF ~(Len(value) < HYP_IO_MAX) THEN Panic
    ELSE IF OverflowPanics(oc, region.paddr, offset) THEN Panic
    ELSE hyp_io_write(t, d, WrapAdd(region.paddr, offset), Len(value),
                      Patch(Zeros(8), 0, value))

(***************************************************************************)
(* The Transport operations of HypPciTransport.  An operation is given the *)
(* window accesses it has performed so far (io, their log entries) and     *)
(* yields what it does next: a typed read or write of a window, its        *)
(* return, or a panic of its own.                                          *)
(***************************************************************************)
ReadOf(region, offset, size) ==
    [kind |-> "read", region |-> region, offset |-> offset, size |-> size]

WriteOf(region, offset, value) ==
    [kind |-> "write", region |-> region, offset |-> offset, value |-> value]

Return(res) == [kind |-> "return", res |-> res]

Fatal == [kind |-> "panic"]

Unit == [tag |-> "unit"]
Bool(b) == [tag |-> "bool", b |-> b]

\* configread!(common_cfg, field) read as a type of size bytes.
configread(common_cfg, field, size) == ReadOf(common_cfg, offset_of(field), size)

\* configwrite!(common_cfg, field, value).
configwrite(common_cfg, field, value) == WriteOf(common_cfg, offset_of(field), value)

\* The bits DeviceStatus::from_bits_truncate keeps (all defined flags).
DeviceStatusBits == U32(207)

Transport_device_type(t, io) == Return([tag |-> "DeviceType", v |-> t.device_type])

read_device_features(t, io) ==
    CASE Len(io) = 0 -> configwrite(t.common_cfg, "device_feature_select", U32(0))
      [] Len(io) = 1 -> configread(t.common_cfg, "device_feature", 4)
      [] Len(io) = 2 -> configwrite(t.common_cfg, "device_feature_select", U32(1))
      [] Len(io) = 3 -> configread(t.common_cfg, "device_feature", 4)
      [] OTHER -> \* device_features_low = io[2].data, _high = io[4].data
            Return([tag |-> "u64",
                    v |-> Or(Shl32(Widen(io[4].data, 8)), Widen(io[2].data, 8))])

\* write_driver_features with the second select write naming word 0 again.
write_driver_features_select0(t, io, driver_features) ==
    CASE Len(io) = 0 -> configwrite(t.common_cfg, "driver_feature_select", U32(0))
      [] Len(io) = 1 -> configwrite(t.common_cfg, "driver_feature",
                                    Truncate(driver_features, 4))
      [] Len(io) = 2 -> configwrite(t.common_cfg, "driver_feature_select", U32(0))
      [] Len(io) = 3 -> configwrite(t.common_cfg, "driver_feature",
                                    Truncate(Shr32(driver_features), 4))
      [] OTHER -> Return(Unit)

write_driver_features(t, io, driver_features) ==
    CASE Len(io) = 0 -> configwrite(t.common_cfg, "driver_feature_select", U32(0))
      [] Len(io) = 1 -> configwrite(t.common_cfg, "driver_feature",
                                    Truncate(driver_features, 4))
      [] Len(io) = 2 -> configwrite(t.common_cfg, "driver_feature_select", U32(1))
      [] Len(io) = 3 -> configwrite(t.common_cfg, "driver_feature",
                                    Truncate(Shr32(driver_features), 4))
      [] OTHER -> Return(Unit)

max_queue_size(t, io, queue) ==
    CASE Len(io) = 0 -> configwrite(t.common_cfg, "queue_select", queue)
      [] Len(io) = 1 -> configread(t.common_cfg, "queue_size", 2)
      [] OTHER -> Return([tag |-> "u32", v |-> Widen(io[2].data, 4)])

\* notify with the offset left unscaled by notify_off_multiplier.
notify_unscaled(t, io, queue) ==
    CASE Len(io) = 0 -> configwrite(t.common_cfg, "queue_select", queue)
      [] Len(io) = 1 -> configread(t.common_cfg, "queue_notify_off", 2)
      [] Len(io) = 2 -> WriteOf(t.notify_region, Widen(io[2].data, 8), queue)
      [] OTHER -> Return(Unit)

notify(t, io, queue) ==
    CASE Len(io) = 0 -> configwrite(t.common_cfg, "queue_select", queue)
      [] Len(io) = 1 -> configread(t.common_cfg, "queue_notify_off", 2)
      [] Len(io) = 2 -> \* queue_notify_off = io[2].data; a u16 times a u32
                        \* never overflows a 64-bit usize
            WriteOf(t.notify_region,
                    MulBytes(Widen(io[2].data, 8), Widen(t.notify_off_multiplier, 8)),
                    queue)
      [] OTHER -> Return(Unit)

get_status(t, io) ==
    CASE Len(io) = 0 -> configread(t.common_cfg, "device_status", 1)
      [] OTHER -> Return([tag |-> "DeviceStatus",
                          v |-> And(Widen(io[1].data, 4), DeviceStatusBits)])

set_status(t, io, status) ==
    CASE Len(io) = 0 -> configwrite(t.common_cfg, "device_status", Truncate(status, 1))
      [] OTHER -> Return(Unit)

set_guest_page_size(t, io, guest_page_size) == Return(Unit)

requires_legacy_layout(t, io) == Return(Bool(FALSE))

queue_set(t, io, queue, size, descriptors, driver_area, device_area) ==
    CASE Len(io) = 0 -> configwrite(t.common_cfg, "queue_select", queue)
      [] Len(io) = 1 -> configwrite(t.common_cfg, "queue_size", Truncate(size, 2))
      [] Len(io) = 2 -> configwrite(t.common_cfg, "queue_desc", descriptors)
      [] Len(io) = 3 -> configwrite(t.common_cfg, "queue_driver", driver_area)
      [] Len(io) = 4 -> configwrite(t.common_cfg, "queue_device", device_area)
      [] Len(io) = 5 -> configwrite(t.common_cfg, "queue_enable", U16(1))
      [] OTHER -> Return(Unit)

\* queue_unset disabling the queue instead of doing nothing.
queue_unset_disabling(t, io, queue) ==
    CASE Len(io) = 0 -> configwrite(t.common_cfg, "queue_select", queue)
      [] Len(io) = 1 -> configwrite(t.common_cfg, "queue_enable", U16(0))
      [] OTHER -> Return(Unit)

queue_unset(t, io, queue) == Return(Unit)

\* queue_used reading queue_enable without selecting the queue first.
queue_used_unselected(t, io, queue) ==
    CASE Len(io) = 0 -> configread(t.common_cfg, "queue_enable", 2)
      [] OTHER -> Return(Bool(io[1].data = U16(1)))

queue_used(t, io, queue) ==
    CASE Len(io) = 0 -> configwrite(t.common_cfg, "queue_select", queue)
      [] Len(io) = 1 -> configread(t.common_cfg, "queue_enable", 2)
      [] OTHER -> Return(Bool(io[2].data = U16(1)))

\* ack_interrupt testing the queue-interrupt bit only.
ack_interrupt_bit0(t, io) ==
    CASE Len(io) = 0 -> ReadOf(t.isr_status, U64(0), 1)
      [] OTHER -> Return(Bool(And(io[1].data, U8(1)) # U8(0)))

ack_interrupt(t, io) ==
    CASE Len(io) = 0 -> ReadOf(t.isr_status, U64(0), 1)
      [] OTHER -> Return(Bool(And(io[1].data, U8(3)) # U8(0)))

read_config_generation(t, io) ==
    CASE Len(io) = 0 -> configread(t.common_cfg, "config_generation", 4)
      [] OTHER -> Return([tag |-> "u32", v |-> io[1].data])

\* read_config_space unwrapping the optional window instead of returning
\* ConfigSpaceMissing.
read_config_space_unwrap(t, io, oc, T, offset) ==
    IF ~(T.align <= 4) THEN Fatal
    ELSE IF ModSmall(offset, T.align) # 0 THEN Fatal
    ELSE IF t.config_space.tag = "None" THEN Fatal
    ELSE IF OverflowPanics(oc, offset, U64(T.size)) THEN Fatal
    ELSE IF Lt(t.config_space.v.size, WrapAdd(offset, U64(T.size)))
         THEN Return(Err([kind |-> "ConfigSpaceTooSmall"]))
    ELSE IF Len(io) = 0 THEN ReadOf(t.config_space.v, offset, T.size)
    ELSE Return(Ok(io[1].data))

\* read_config_space reading the window's first byte before its size check.
read_config_space_probing(t, io, oc, T, offset) ==
    IF ~(T.align <= 4) THEN Fatal
    ELSE IF ModSmall(offset, T.align) # 0 THEN Fatal
    ELSE IF t.config_space.tag = "None"
         THEN Return(Err([kind |-> "ConfigSpaceMissing"]))
    ELSE IF Len(io) = 0 THEN ReadOf(t.config_space.v, U64(0), 1)
    ELSE IF OverflowPanics(oc, offset, U64(T.size)) THEN Fatal
    ELSE IF Lt(t.config_space.v.size, WrapAdd(offset, U64(T.size)))
         THEN Return(Err([kind |-> "ConfigSpaceTooSmall"]))
    ELSE IF Len(io) = 1 THEN ReadOf(t.config_space.v, offset, T.size)
    ELSE Return(Ok(io[2].data))

\* read_config_space::<T>(offset) with T = [size, align].
read_config_space(t, io, oc, T, offset) ==
    IF ~(T.align <= 4) THEN Fatal
    ELSE IF ModSmall(offset, T.align) # 0 THEN Fatal
    ELSE IF t.config_space.tag = "None"
         THEN Return(Err([kind |-> "ConfigSpaceMissing"]))
    ELSE IF OverflowPanics(oc, offset, U64(T.size)) THEN Fatal
    ELSE IF Lt(t.config_space.v.size, WrapAdd(offset, U64(T.size)))
         THEN Return(Err([kind |-> "ConfigSpaceTooSmall"]))
    ELSE IF Len(io) = 0 THEN ReadOf(t.config_space.v, offset, T.size)
    ELSE Return(Ok(io[1].data))

\* write_config_space::<T>(offset, value) with T = [size, align].
write_config_space(t, io, oc, T, offset, value) ==
    IF ~(T.align <= 4) THEN Fatal
    ELSE IF ModSmall(offset, T.align) # 0 THEN Fatal
    ELSE IF t.config_space.tag = "None"
         THEN Return(Err([kind |-> "ConfigSpaceMissing"]))
    ELSE IF OverflowPanics(oc, offset, U64(T.size)) THEN Fatal
    ELSE IF Lt(t.config_space.v.size, WrapAdd(offset, U64(T.size)))
         THEN Return(Err([kind |-> "ConfigSpaceTooSmall"]))
    ELSE IF Len(io) = 0 THEN WriteOf(t.config_space.v, offset, value)
    ELSE Return(Ok(<<>>))
(***************************************************************************)
(* Capability resolution: get_bar_region and HypPciTransport::new.         *)
(***************************************************************************)
\* size_of and align_of of the window types new() resolves.
TypeU8 == [size |-> 1, align |-> 1]
TypeU16 == [size |-> 2, align |-> 2]
TypeU32 == [size |-> 4, align |-> 4]

\* root.bar_info(device_function, bar): the decoded BAR, or a PCI error for
\* an index that names no BAR.
bar_info(bars, bar) ==
    IF bar \in DOMAIN bars THEN Ok(bars[bar]) ELSE Err([kind |-> "Pci"])

\* BarInfo::memory_address_size(): Some((address, size)) of a memory BAR.
memory_address_size(info) ==
    IF info.kind = "Memory" THEN Some([address |-> info.address, size |-> info.size])
    ELSE None

\* get_bar_region without the check that the structure is at least as long
\* as size_of::<T>().
get_bar_region_unsized(bars, T, struct_info, oc) ==
    LET info == bar_info(bars, struct_info.bar)
        mem == memory_address_size(info.v)
        bar_address == mem.v.address
        bar_size == mem.v.size
        end == WrapAdd(struct_info.offset, struct_info.length)
        paddr == WrapAdd(bar_address, Widen(struct_info.offset, 8))
    IN IF info.tag = "Err" THEN Err(info.e)
       ELSE IF mem.tag = "None" THEN Err([kind |-> "UnexpectedIoBar"])
       ELSE IF bar_address = U64(0)
            THEN Err([kind |-> "BarNotAllocated", bar |-> struct_info.bar])
       ELSE IF oc /\ AddOverflows(struct_info.offset, struct_info.length)
            THEN [tag |-> "panic"]
       ELSE IF Lt(bar_size, end)
            THEN Err([kind |-> "BarOffsetOutOfRange"])
       ELSE IF oc /\ AddOverflows(bar_address, Widen(struct_info.offset, 8))
            THEN [tag |-> "panic"]
       ELSE IF ModSmall(paddr, T.align) # 0
            THEN Err([kind |-> "Misaligned", address |-> paddr,
                      alignment |-> T.align])
       ELSE Ok([paddr |-> paddr, size |-> Widen(struct_info.length, 8)])

\* get_bar_region::<H, T, _>(root, device_function, struct_info) in a build
\* whose overflow checks are oc.
get_bar_region(bars, T, struct_info, oc) ==
    LET info == bar_info(bars, struct_info.bar)
        mem == memory_address_size(info.v)
        bar_address == mem.v.address
        bar_size == mem.v.size
        end == WrapAdd(struct_info.offset, struct_info.length)
        paddr == WrapAdd(bar_address, Widen(struct_info.offset, 8))
    IN IF info.tag = "Err" THEN Err(info.e)
       ELSE IF mem.tag = "None" THEN Err([kind |-> "UnexpectedIoBar"])
       ELSE IF bar_address = U64(0)
            THEN Err([kind |-> "BarNotAllocated", bar |-> struct_info.bar])
       ELSE IF oc /\ AddOverflows(struct_info.offset, struct_info.length)
            THEN [tag |-> "panic"]
       ELSE IF Lt(bar_size, end) \/ Lt(Widen(struct_info.length, 8), U64(T.size))
            THEN Err([kind |-> "BarOffsetOutOfRange"])
       ELSE IF oc /\ AddOverflows(bar_address, Widen(struct_info.offset, 8))
            THEN [tag |-> "panic"]
       ELSE IF ModSmall(paddr, T.align) # 0
            THEN Err([kind |-> "Misaligned", address |-> paddr,
                      alignment |-> T.align])
       ELSE Ok([paddr |-> paddr, size |-> Widen(struct_info.length, 8)])

\* The opaque DeviceType decoded from the PCI device ID.
device_type(device_id) == [device_id |-> device_id]

RECURSIVE FindCapabilities_last(_, _, _)
\* The capability loop without its is_none() guards: the last capability of
\* each subtype is kept.
FindCapabilities_last(caps, i, found) ==
    IF i > Len(caps) THEN found
    ELSE LET capability == caps[i]
             cap_len == capability.private_header[1]
             cfg_type == capability.private_header[2]
             struct_info == [bar |-> capability.bar[1],
                             offset |-> capability.offset,
                             length |-> capability.length]
             next ==
                IF capability.id # PCI_CAP_ID_VNDR THEN found
                ELSE IF cap_len < 16 THEN found
                ELSE IF cfg_type = VIRTIO_PCI_CAP_COMMON_CFG
                     THEN [found EXCEPT !.common_cfg = Some(struct_info)]
                ELSE IF cfg_type = VIRTIO_PCI_CAP_NOTIFY_CFG /\ cap_len >= 20
                     THEN [found EXCEPT
                             !.notify_cfg = Some(struct_info),
                             !.notify_off_multiplier = capability.multiplier]
                ELSE IF cfg_type = VIRTIO_PCI_CAP_ISR_CFG
                     THEN [found EXCEPT !.isr_cfg = Some(struct_info)]
                ELSE IF cfg_type = VIRTIO_PCI_CAP_DEVICE_CFG
                     THEN [found EXCEPT !.device_cfg = Some(struct_info)]
                ELSE found
         IN FindCapabilities_last(caps, i + 1, next)

RECURSIVE FindCapabilities(_, _, _)
\* The capability loop of new(): found is [common_cfg, notify_cfg,
\* notify_off_multiplier, isr_cfg, device_cfg] after the capabilities from
\* index i on have been visited.
FindCapabilities(caps, i, found) ==
    IF i > Len(caps) THEN found
    ELSE LET capability == caps[i]
             cap_len == capability.private_header[1]
             cfg_type == capability.private_header[2]
             struct_info == [bar |-> capability.bar[1],
                             offset |-> capability.offset,
                             length |-> capability.length]
             next ==
                IF capability.id # PCI_CAP_ID_VNDR THEN found
                ELSE IF cap_len < 16 THEN found
                ELSE IF cfg_type = VIRTIO_PCI_CAP_COMMON_CFG
                        /\ found.common_cfg.tag = "None"
                     THEN [found EXCEPT !.common_cfg = Some(struct_info)]
                ELSE IF cfg_type = VIRTIO_PCI_CAP_NOTIFY_CFG /\ cap_len >= 20
                        /\ found.notify_cfg.tag = "None"
                     THEN [found EXCEPT
                             !.notify_cfg = Some(struct_info),
                             !.notify_off_multiplier = capability.multiplier]
                ELSE IF cfg_type = VIRTIO_PCI_CAP_ISR_CFG
                        /\ found.isr_cfg.tag = "None"
                     THEN [found EXCEPT !.isr_cfg = Some(struct_info)]
                ELSE IF cfg_type = VIRTIO_PCI_CAP_DEVICE_CFG
                        /\ found.device_cfg.tag = "None"
                     THEN [found EXCEPT !.device_cfg = Some(struct_info)]
                ELSE found
         IN FindCapabilities(caps, i + 1, next)

\* new() looking for the ISR capability before the notify capability.
new_isr_first(pci, oc) ==
    LET found == FindCapabilities(pci.caps, 1,
                    [common_cfg |-> None, notify_cfg |-> None,
                     notify_off_multiplier |-> U32(0),
                     isr_cfg |-> None, device_cfg |-> None])
        common_cfg == get_bar_region(pci.bars, CommonCfgType, found.common_cfg.v, oc)
        notify_region == get_bar_region(pci.bars, TypeU16, found.notify_cfg.v, oc)
        isr_status == get_bar_region(pci.bars, TypeU8, found.isr_cfg.v, oc)
        config_space == get_bar_region(pci.bars, TypeU32, found.device_cfg.v, oc)
    IN IF pci.vendor_id # U16(VIRTIO_VENDOR_ID)
       THEN Err([kind |-> "InvalidVendorId", vendor_id |-> pci.vendor_id])
       ELSE IF found.common_cfg.tag = "None" THEN Err([kind |-> "MissingCommonConfig"])
       ELSE IF common_cfg.tag # "Ok" THEN common_cfg
       ELSE IF found.isr_cfg.tag = "None" THEN Err([kind |-> "MissingIsrConfig"])
       ELSE IF found.notify_cfg.tag = "None" THEN Err([kind |-> "MissingNotifyConfig"])
       ELSE IF ModSmall(found.notify_off_multiplier, 2) # 0
            THEN Err([kind |-> "InvalidNotifyOffMultiplier",
                      multiplier |-> found.notify_off_multiplier])
       ELSE IF notify_region.tag # "Ok" THEN notify_region
       ELSE IF found.isr_cfg.tag = "None" THEN Err([kind |-> "MissingIsrConfig"])
       ELSE IF isr_status.tag # "Ok" THEN isr_status
       ELSE IF found.device_cfg.tag = "Some" /\ config_space.tag # "Ok"
            THEN config_space
       ELSE Ok([device_type |-> device_type(pci.device_id),
                common_cfg |-> common_cfg.v,
                notify_region |-> notify_region.v,
                notify_off_multiplier |-> found.notify_off_multiplier,
                isr_status |-> isr_status.v,
                config_space |-> IF found.device_cfg.tag = "Some"
                                 THEN Some(config_space.v) ELSE None])

\* new() without the check of the multiplier's parity.
new_any_multiplier(pci, oc) ==
    LET found == FindCapabilities(pci.caps, 1,
                    [common_cfg |-> None, notify_cfg |-> None,
                     notify_off_multiplier |-> U32(0),
                     isr_cfg |-> None, device_cfg |-> None])
        common_cfg == get_bar_region(pci.bars, CommonCfgType, found.common_cfg.v, oc)
        notify_region == get_bar_region(pci.bars, TypeU16, found.notify_cfg.v, oc)
        isr_status == get_bar_region(pci.bars, TypeU8, found.isr_cfg.v, oc)
        config_space == get_bar_region(pci.bars, TypeU32, found.device_cfg.v, oc)
    IN IF pci.vendor_id # U16(VIRTIO_VENDOR_ID)
       THEN Err([kind |-> "InvalidVendorId", vendor_id |-> pci.vendor_id])
       ELSE IF found.common_cfg.tag = "None" THEN Err([kind |-> "MissingCommonConfig"])
       ELSE IF common_cfg.tag # "Ok" THEN common_cfg
       ELSE IF found.notify_cfg.tag = "None" THEN Err([kind |-> "MissingNotifyConfig"])
       ELSE IF notify_region.tag # "Ok" THEN notify_region
       ELSE IF found.isr_cfg.tag = "None" THEN Err([kind |-> "MissingIsrConfig"])
       ELSE IF isr_status.tag # "Ok" THEN isr_status
       ELSE IF found.device_cfg.tag = "Some" /\ config_space.tag # "Ok"
            THEN config_space
       ELSE Ok([device_type |-> device_type(pci.device_id),
                common_cfg |-> common_cfg.v,
                notify_region |-> notify_region.v,
                notify_off_multiplier |-> found.notify_off_multiplier,
                isr_status |-> isr_status.v,
                config_space |-> IF found.device_cfg.tag = "Some"
                                 THEN Some(config_space.v) ELSE None])

\* HypPciTransport::new(root, device_function) for the PCI function pci =
\* [vendor_id, device_id, caps, bars], in a build whose overflow checks are oc.
new(pci, oc) ==
    LET found == FindCapabilities(pci.caps, 1,
                    [common_cfg |-> None, notify_cfg |-> None,
                     notify_off_multiplier |-> U32(0),
                     isr_cfg |-> None, device_cfg |-> None])
        common_cfg == get_bar_region(pci.bars, CommonCfgType, found.common_cfg.v, oc)
        notify_region == get_bar_region(pci.bars, TypeU16, found.notify_cfg.v, oc)
        isr_status == get_bar_region(pci.bars, TypeU8, found.isr_cfg.v, oc)
        config_space == get_bar_region(pci.bars, TypeU32, found.device_cfg.v, oc)
    IN IF pci.vendor_id # U16(VIRTIO_VENDOR_ID)
       THEN Err([kind |-> "InvalidVendorId", vendor_id |-> pci.vendor_id])
       ELSE IF found.common_cfg.tag = "None" THEN Err([kind |-> "MissingCommonConfig"])
       ELSE IF common_cfg.tag # "Ok" THEN common_cfg
       ELSE IF found.notify_cfg.tag = "None" THEN Err([kind |-> "MissingNotifyConfig"])
       ELSE IF ModSmall(found.notify_off_multiplier, 2) # 0
            THEN Err([kind |-> "InvalidNotifyOffMultiplier",
                      multiplier |-> found.notify_off_multiplier])
       ELSE IF notify_region.tag # "Ok" THEN notify_region
       ELSE IF found.isr_cfg.tag = "None" THEN Err([kind |-> "MissingIsrConfig"])
       ELSE IF isr_status.tag # "Ok" THEN isr_status
       ELSE IF found.device_cfg.tag = "Some" /\ config_space.tag # "Ok"
            THEN config_space
       ELSE Ok([device_type |-> device_type(pci.device_id),
                common_cfg |-> common_cfg.v,
                notify_region |-> notify_region.v,
                notify_off_multiplier |-> found.notify_off_multiplier,
                isr_status |-> isr_status.v,
                config_space |-> IF found.device_cfg.tag = "Some"
                                 THEN Some(config_space.v) ELSE None])


(***************************************************************************)
(* The PCI functions, devices and operation arguments of the model.        *)
(***************************************************************************)
\* The BARs of the modelled PCI function: BAR 0 is an allocated memory BAR,
\* BAR 1 an I/O BAR, BAR 2 a memory BAR that was never allocated.
MemoryBar(address, size) == [kind |-> "Memory", address |-> address, size |-> size]
IoBar(address, size) == [kind |-> "IO", address |-> address, size |-> size]

Bars == (0 :> MemoryBar(<<0, 0, 0, 16, 0, 0, 0, 0>>, U32(4096)))
     @@ (1 :> IoBar(U32(49152), U32(256)))
     @@ (2 :> MemoryBar(U64(0), U32(4096)))

\* A vendor-specific VirtIO capability of private-header length cap_len.
Capability(cfg_type, cap_len, bar, offset, length, multiplier) ==
    [id |-> PCI_CAP_ID_VNDR, private_header |-> <<cap_len, cfg_type>>,
     bar |-> U32(bar), offset |-> U32(offset), length |-> U32(length),
     multiplier |-> U32(multiplier)]

CommonCap == Capability(VIRTIO_PCI_CAP_COMMON_CFG, 16, 0, 0, 56, 0)
NotifyCap == Capability(VIRTIO_PCI_CAP_NOTIFY_CFG, 20, 0, 256, 16, 4)
\* The ISR status byte lies in the four bytes just below the device-config
\* structure.
IsrCap == Capability(VIRTIO_PCI_CAP_ISR_CFG, 16, 0, 764, 1, 0)
DeviceCap == Capability(VIRTIO_PCI_CAP_DEVICE_CFG, 16, 0, 768, 8, 0)

\* A notify capability with an odd multiplier, and a common-config
\* capability whose structure is shorter than CommonCfg.
NotifyOddCap == Capability(VIRTIO_PCI_CAP_NOTIFY_CFG, 20, 0, 256, 16, 3)
CommonTruncatedCap == Capability(VIRTIO_PCI_CAP_COMMON_CFG, 16, 0, 0, 24, 0)

PciFunction(caps) ==
    [vendor_id |-> U16(VIRTIO_VENDOR_ID), device_id |-> U16(4162),
     caps |-> caps, bars |-> Bars]

\* The PCI functions the owner builds its transport on: with a device-config
\* structure of 8 bytes, and with none; and three on which new() fails (an
\* odd multiplier, with and without a common-config capability, and a
\* truncated common-config structure).
PciFunctions ==
    { PciFunction(<<CommonCap, NotifyCap, IsrCap, DeviceCap>>),
      PciFunction(<<CommonCap, NotifyCap, IsrCap>>),
      PciFunction(<<CommonCap, NotifyOddCap, IsrCap>>),
      PciFunction(<<NotifyOddCap, IsrCap>>),
      PciFunction(<<CommonTruncatedCap, NotifyCap, IsrCap>>) }

\* The capabilities the capability lists of PciCandidates are made of:
\* second capabilities of each subtype, capabilities that are too short,
\* not vendor-specific or of no known subtype, and capabilities whose
\* structure does not resolve.
CapabilityPool ==
    { Capability(VIRTIO_PCI_CAP_COMMON_CFG, 16, 0, 1024, 64, 0),
      Capability(VIRTIO_PCI_CAP_COMMON_CFG, 12, 0, 2048, 56, 0),
      Capability(VIRTIO_PCI_CAP_COMMON_CFG, 16, 1, 0, 56, 0),
      [Capability(VIRTIO_PCI_CAP_COMMON_CFG, 16, 0, 3072, 56, 0) EXCEPT !.id = 5],
      Capability(VIRTIO_PCI_CAP_NOTIFY_CFG, 20, 0, 272, 8, 2),
      Capability(VIRTIO_PCI_CAP_NOTIFY_CFG, 16, 0, 288, 8, 6),
      NotifyOddCap,
      Capability(VIRTIO_PCI_CAP_ISR_CFG, 16, 0, 513, 1, 0),
      Capability(VIRTIO_PCI_CAP_ISR_CFG, 15, 0, 515, 1, 0),
      Capability(VIRTIO_PCI_CAP_DEVICE_CFG, 16, 0, 776, 4, 0),
      Capability(VIRTIO_PCI_CAP_DEVICE_CFG, 16, 2, 0, 8, 0),
      Capability(VIRTIO_PCI_CAP_DEVICE_CFG, 8, 0, 784, 4, 0),
      Capability(5, 16, 0, 896, 4, 0) }

\* The capability lists HypPciTransport::new is checked on: up to two
\* capabilities of the pool followed by any of the standard four.
CapabilityTails ==
    { LET kept(c) == c \in keep
      IN SelectSeq(<<CommonCap, NotifyCap, IsrCap, DeviceCap>>, kept) :
        keep \in SUBSET {CommonCap, NotifyCap, IsrCap, DeviceCap} }

VendorIds == { VIRTIO_VENDOR_ID, 4660 }

PciCandidates ==
    { [PciFunction(head \o tail) EXCEPT !.vendor_id = U16(vendor)] :
        head \in {<<>>} \cup { <<a>> : a \in CapabilityPool }
                 \cup { <<a, b>> : a, b \in CapabilityPool },
        tail \in CapabilityTails,
        vendor \in VendorIds }

NoType == [size |-> 0, align |-> 0]

NoCall == [op |-> "none", queue |-> -1, T |-> NoType, arg |-> <<>>]

Call(op, queue, T, arg) == [op |-> op, queue |-> queue, T |-> T, arg |-> arg]

\* The length of the device-config structure of transport t (0 if none).
ConfigLen(t) ==
    IF t.config_space.tag = "Some" THEN Small(t.config_space.v.size) ELSE 0

\* A device at the time the transport is built: enabled says which queues an
\* earlier owner left enabled; queue q reports queue_notify_off 3 + q.
Device(t, enabled) ==
    [device_feature_select |-> U32(0),
     driver_feature_select |-> U32(0),
     feature |-> [i \in 0 .. 1 |-> U32(0)],
     device_status |-> U8(0),
     config_generation |-> U8(7),
     queue_select |-> U16(0),
     queue |-> [q \in Queues |->
                 [queue_size |-> U16(256),
                  queue_enable |-> IF q \in enabled THEN U16(1) ELSE U16(0),
                  queue_notify_off |-> U16(3 + q),
                  queue_desc |-> U64(0),
                  queue_driver |-> U64(0),
                  queue_device |-> U64(0)]],
     isr |-> U8(0),
     config |-> [i \in 1 .. ConfigLen(t) |-> 16 + i]]

EnabledAtInit == { {}, {0} }
IsrValues == { 1, 2, 3, 4 }

FeatureValues == { <<1, 2, 3, 4, 5, 6, 7, 8>>, <<0, 0, 0, 128, 255, 0, 0, 0>> }
QueueSizes == { U32(8), <<4, 0, 1, 0>> }
QueueAreas == { [descriptors |-> <<0, 16, 0, 128, 1, 0, 0, 0>>,
                 driver_area |-> <<0, 32, 0, 128, 1, 0, 0, 0>>,
                 device_area |-> <<0, 48, 0, 128, 1, 0, 0, 0>>] }
StatusValues == { U32(15) }

\* The types config space is accessed as: u8, u32, u64 and [u8; 8]; it is
\* read as [u8; 4] too.
ConfigTypes == { TypeU8, TypeU32, [size |-> 8, align |-> 8],
                 [size |-> 8, align |-> 1] }
ConfigReadTypes == ConfigTypes \cup { [size |-> 4, align |-> 1] }
ConfigOffsets == { U64(0), U64(2), U64(8),
                   <<252, 255, 255, 255, 255, 255, 255, 255>> }
ConfigValue(T) == [i \in 1 .. T.size |-> 165]

\* The capability records get_bar_region is applied to.
ResolveBars == 0 .. 3
ResolveOffsets == { U32(0), U32(2), U32(768), U32(4092), U32(4096),
                    <<252, 255, 255, 255>> }
ResolveLengths == { U32(0), U32(1), U32(4), U32(8), U32(56), U32(4096),
                    <<255, 255, 255, 255>> }
ResolveTypes == { TypeU8, TypeU16, TypeU32, CommonCfgType }

(***************************************************************************)
(* The state machine: new() is called on a PCI function ("unbuilt"); when  *)
(* it fails the run is over ("failed"), otherwise the transport's owner    *)
(* calls the Transport operations one at a time.  An operation starts from *)
(* "idle", performs its window accesses one hypercall at a time while      *)
(* "running", and is "done" when it returns; the owner then takes the      *)
(* result and is idle again.  A panic ends the run.                        *)
(***************************************************************************)
NoResolve == [tag |-> "none"]
NoResult == [tag |-> "none"]
NoBuilt == [tag |-> "none"]

\* The value of self while there is no transport.
NoRegion == [paddr |-> U64(0), size |-> U64(0)]
NoTransport ==
    [device_type |-> device_type(U16(0)), common_cfg |-> NoRegion,
     notify_region |-> NoRegion, notify_off_multiplier |-> U32(0),
     isr_status |-> NoRegion, config_space |-> None]

\* A second caller that is not calling anything.
NoPeer == [phase |-> "idle", call |-> NoCall, log |-> <<>>, ret |-> NoResult]

panicked == phase = "panicked"

\* Before new() is called on one of the PCI functions fs.
Unbuilt(fs) ==
    /\ overflow_checks \in BOOLEAN
    /\ device_function \in fs
    /\ built = NoBuilt
    /\ self = NoTransport
    /\ dev = Device(NoTransport, {})
    /\ phase = "unbuilt"
    /\ call = NoCall
    /\ log = <<>>
    /\ ret = NoResult
    /\ usedSeen = {}
    /\ written = <<>>
    /\ drained = FALSE
    /\ lastSet = -1
    /\ res_in = NoResolve
    /\ res_out = NoResolve
    /\ peer = NoPeer

Init == Unbuilt(PciFunctions)

\* HypPciTransport::new is called on the PCI function: on Ok the owner holds
\* the transport, on an error or a panic the run is over.
Construct ==
    /\ phase = "unbuilt"
    /\ \E r \in {new(device_function, overflow_checks)} :
          /\ built' = r
          /\ IF r.tag = "Ok"
             THEN /\ self' = r.v
                  /\ \E enabled \in EnabledAtInit : dev' = Device(r.v, enabled)
                  /\ phase' = "idle"
             ELSE /\ phase' = "failed"
                  /\ UNCHANGED <<self, dev>>
    /\ UNCHANGED <<overflow_checks, call, log, ret, usedSeen, written, drained,
                   lastSet, res_in, res_out,
                   device_function, peer>>

\* What operation c does next on transport t after the accesses io.
Instr(c, t, oc, io) ==
    CASE c.op = "device_type" -> Transport_device_type(t, io)
      [] c.op = "read_device_features" -> read_device_features(t, io)
      [] c.op = "write_driver_features" -> write_driver_features(t, io, c.arg)
      [] c.op = "max_queue_size" -> max_queue_size(t, io, U16(c.queue))
      [] c.op = "notify" -> notify(t, io, U16(c.queue))
      [] c.op = "get_status" -> get_status(t, io)
      [] c.op = "set_status" -> set_status(t, io, c.arg)
      [] c.op = "set_guest_page_size" -> set_guest_page_size(t, io, c.arg)
      [] c.op = "requires_legacy_layout" -> requires_legacy_layout(t, io)
      [] c.op = "queue_set" ->
            queue_set(t, io, U16(c.queue), c.arg.size, c.arg.descriptors,
                      c.arg.driver_area, c.arg.device_area)
      [] c.op = "queue_unset" -> queue_unset(t, io, U16(c.queue))
      [] c.op = "queue_used" -> queue_used(t, io, U16(c.queue))
      [] c.op = "ack_interrupt" -> ack_interrupt(t, io)
      [] c.op = "read_config_generation" -> read_config_generation(t, io)
      [] c.op = "read_config_space" -> read_config_space(t, io, oc, c.T, c.arg.offset)
      [] c.op = "write_config_space" ->
            write_config_space(t, io, oc, c.T, c.arg.offset, c.arg.value)

\* The typed window access an operation asks for.
Access(t, d, oc, ins) ==
    IF ins.kind = "read"
    THEN HypIoRegion_read(t, d, oc, ins.region, ins.offset, ins.size)
    ELSE HypIoRegion_write(t, d, oc, ins.region, ins.offset, ins.value)

\* A panic unwinds operation c after the accesses io, the device being d.
Unwind(c, d, io) ==
    /\ phase' = "panicked"
    /\ call' = c
    /\ dev' = d
    /\ log' = io
    /\ ret' = [tag |-> "panic"]

\* Operation c has performed the accesses io and left the device as d: it
\* returns or panics if that is what it does next, and runs on otherwise.
Settle(c, d, io) ==
    \E ins \in {Instr(c, self, overflow_checks, io)} :
        IF ins.kind = "panic" THEN Unwind(c, d, io)
        ELSE /\ call' = c
             /\ dev' = d
             /\ log' = io
             /\ phase' = IF ins.kind = "return" THEN "done" ELSE "running"
             /\ ret' = IF ins.kind = "return" THEN ins.res ELSE NoResult

\* The idle owner calls operation c.
Begin(c) ==
    /\ Settle(c, dev, <<>>)
    /\ UNCHANGED <<self, overflow_checks, usedSeen, written, drained, lastSet,
                   res_in, res_out, device_function, built, peer>>

\* The running operation performs its next window access.
Hypercall ==
    /\ phase = "running"
    /\ \E a \in {Access(self, dev, overflow_checks,
                        Instr(call, self, overflow_checks, log))} :
          IF a.panicked THEN Unwind(call, dev, log)
          ELSE Settle(call, a.dev, Append(log, a.entry))
    /\ UNCHANGED <<self, overflow_checks, usedSeen, written, drained, lastSet,
                   res_in, res_out, device_function, built, peer>>

\* The operation has returned: its owner takes the result.
Resume ==
    /\ phase = "done"
    /\ phase' = "idle"
    /\ call' = NoCall
    /\ log' = <<>>
    /\ ret' = NoResult
    /\ usedSeen' = IF call.op = "queue_used" /\ ret.b
                   THEN usedSeen \cup {call.queue} ELSE usedSeen
    /\ written' = IF call.op = "write_driver_features" THEN call.arg ELSE written
    /\ drained' = (call.op = "ack_interrupt" \/ drained)
    /\ lastSet' = IF call.op = "queue_set" THEN call.queue ELSE -1
    /\ UNCHANGED <<self, dev, overflow_checks, res_in, res_out, device_function,
                   built, peer>>

DeviceType ==
    /\ phase = "idle"
    /\ Begin(Call("device_type", -1, NoType, <<>>))

ReadDeviceFeatures ==
    /\ phase = "idle"
    /\ Begin(Call("read_device_features", -1, NoType, <<>>))

WriteDriverFeatures ==
    /\ phase = "idle"
    /\ \E v \in FeatureValues :
          Begin(Call("write_driver_features", -1, NoType, v))

MaxQueueSize ==
    /\ phase = "idle"
    /\ \E q \in Queues :
          Begin(Call("max_queue_size", q, NoType, <<>>))

Notify ==
    /\ phase = "idle"
    /\ \E q \in Queues :
          Begin(Call("notify", q, NoType, <<>>))

GetStatus ==
    /\ phase = "idle"
    /\ Begin(Call("get_status", -1, NoType, <<>>))

SetStatus ==
    /\ phase = "idle"
    /\ \E status \in StatusValues :
          Begin(Call("set_status", -1, NoType, status))

SetGuestPageSize ==
    /\ phase = "idle"
    /\ Begin(Call("set_guest_page_size", -1, NoType, U32(4096)))

RequiresLegacyLayout ==
    /\ phase = "idle"
    /\ Begin(Call("requires_legacy_layout", -1, NoType, <<>>))

QueueSet ==
    /\ phase = "idle"
    /\ \E q \in Queues, size \in QueueSizes, a \in QueueAreas :
          Begin(Call("queue_set", q, NoType,
                   [size |-> size, descriptors |-> a.descriptors,
                    driver_area |-> a.driver_area, device_area |-> a.device_area]))

QueueUnset ==
    /\ phase = "idle"
    /\ \E q \in Queues :
          Begin(Call("queue_unset", q, NoType, <<>>))

QueueUsed ==
    /\ phase = "idle"
    /\ \E q \in Queues :
          Begin(Call("queue_used", q, NoType, <<>>))

AckInterrupt ==
    /\ phase = "idle"
    /\ Begin(Call("ack_interrupt", -1, NoType, <<>>))

ReadConfigGeneration ==
    /\ phase = "idle"
    /\ Begin(Call("read_config_generation", -1, NoType, <<>>))

ReadConfigSpace ==
    /\ phase = "idle"
    /\ \E T \in ConfigReadTypes, offset \in ConfigOffsets :
          Begin(Call("read_config_space", -1, T, [offset |-> offset]))

WriteConfigSpace ==
    /\ phase = "idle"
    /\ \E T \in ConfigTypes, offset \in ConfigOffsets :
          Begin(Call("write_config_space", -1, T,
                   [offset |-> offset, value |-> ConfigValue(T)]))

\* The device raises an interrupt: its ISR status becomes bits.  (The ISR
\* status is touched by ack_interrupt's single access only, so an interrupt
\* during an operation is one just before or just after it.)
DeviceInterrupt ==
    /\ phase = "idle"
    /\ \E bits \in IsrValues : dev' = [dev EXCEPT !.isr = U8(bits)]
    /\ drained' = FALSE
    /\ UNCHANGED <<self, overflow_checks, phase, call, log, ret, usedSeen, written,
                   lastSet, res_in, res_out, device_function, built, peer>>

Next ==
    \/ Construct
    \/ DeviceType
    \/ ReadDeviceFeatures
    \/ WriteDriverFeatures
    \/ MaxQueueSize
    \/ Notify
    \/ GetStatus
    \/ SetStatus
    \/ SetGuestPageSize
    \/ RequiresLegacyLayout
    \/ QueueSet
    \/ QueueUnset
    \/ QueueUsed
    \/ AckInterrupt
    \/ ReadConfigGeneration
    \/ ReadConfigSpace
    \/ WriteConfigSpace
    \/ Hypercall
    \/ Resume
    \/ DeviceInterrupt

Spec == Init /\ [][Next]_vars

(***************************************************************************)
(* Capability resolution on its own: get_bar_region applied to capability  *)
(* records over the BARs of the modelled PCI function.                     *)
(***************************************************************************)
Resolve ==
    \E bar \in ResolveBars, offset \in ResolveOffsets, length \in ResolveLengths,
       T \in ResolveTypes :
        /\ res_in' = [tag |-> "input", bar |-> bar, offset |-> offset,
                      length |-> length, T |-> T]
        /\ res_out' = get_bar_region(Bars, T,
                         [bar |-> bar, offset |-> offset, length |-> length],
                         overflow_checks)
        /\ UNCHANGED <<self, dev, overflow_checks, phase, call, log, ret, usedSeen,
                       written, drained, lastSet, device_function, built, peer>>

NextResolve == Resolve

SpecResolve == Init /\ [][NextResolve]_vars

(***************************************************************************)
(* Construction on its own: HypPciTransport::new applied to the PCI        *)
(* functions of PciCandidates.                                             *)
(***************************************************************************)
InitNew == Unbuilt(PciCandidates)

NextNew == Construct

SpecNew == InitNew /\ [][NextNew]_vars


(***************************************************************************)
(* Shared use: a second caller (a transport built on a clone of the        *)
(* configuration-access path, hence with the same windows) drives the same *)
(* device, and the two callers' operations interleave hypercall by         *)
(* hypercall.                                                              *)
(***************************************************************************)
\* The peer's operation c has performed the accesses io and left the device
\* as d.
PeerSettle(c, d, io) ==
    \E ins \in {Instr(c, self, overflow_checks, io)} :
        /\ dev' = d
        /\ peer' = [phase |-> CASE ins.kind = "panic" -> "panicked"
                                [] ins.kind = "return" -> "done"
                                [] OTHER -> "running",
                    call |-> c,
                    log |-> io,
                    ret |-> CASE ins.kind = "panic" -> [tag |-> "panic"]
                              [] ins.kind = "return" -> ins.res
                              [] OTHER -> NoResult]

\* The peer's running operation performs its next window access.
PeerHypercall ==
    /\ peer.phase = "running"
    /\ \E a \in {Access(self, dev, overflow_checks,
                        Instr(peer.call, self, overflow_checks, peer.log))} :
          IF a.panicked
          THEN /\ peer' = [peer EXCEPT !.phase = "panicked",
                                       !.ret = [tag |-> "panic"]]
               /\ dev' = dev
          ELSE PeerSettle(peer.call, a.dev, Append(peer.log, a.entry))
    /\ UNCHANGED <<self, overflow_checks, phase, call, log, ret, usedSeen, written,
                   drained, lastSet, res_in, res_out, device_function, built>>

\* The peer's operation has returned.
PeerResume ==
    /\ peer.phase = "done"
    /\ peer' = NoPeer
    /\ UNCHANGED <<self, dev, overflow_checks, phase, call, log, ret, usedSeen,
                   written, drained, lastSet, res_in, res_out, device_function,
                   built>>

\* The idle peer calls operation c on the transport's device.
PeerBegin(c) ==
    /\ phase \in {"idle", "running", "done", "panicked"}
    /\ PeerSettle(c, dev, <<>>)
    /\ UNCHANGED <<self, overflow_checks, phase, call, log, ret, usedSeen, written,
                   drained, lastSet, res_in, res_out, device_function, built>>

PeerMaxQueueSize ==
    /\ peer.phase = "idle"
    /\ \E q \in Queues : PeerBegin(Call("max_queue_size", q, NoType, <<>>))

PeerQueueSet ==
    /\ peer.phase = "idle"
    /\ \E q \in Queues, size \in QueueSizes, a \in QueueAreas :
          PeerBegin(Call("queue_set", q, NoType,
                         [size |-> size, descriptors |-> a.descriptors,
                          driver_area |-> a.driver_area,
                          device_area |-> a.device_area]))

PeerReadDeviceFeatures ==
    /\ peer.phase = "idle"
    /\ PeerBegin(Call("read_device_features", -1, NoType, <<>>))

NextShared ==
    \/ Construct
    \/ ReadDeviceFeatures
    \/ WriteDriverFeatures
    \/ MaxQueueSize
    \/ QueueSet
    \/ Hypercall
    \/ Resume
    \/ PeerMaxQueueSize
    \/ PeerQueueSet
    \/ PeerReadDeviceFeatures
    \/ PeerHypercall
    \/ PeerResume

SpecShared == Init /\ [][NextShared]_vars

(***************************************************************************)
(* Properties.  They read the hypercall log of the operation in progress   *)
(* or just ended: a write entry [kind, address, size, data] carries the    *)
(* bytes written, a read entry the bytes the device returned.              *)
(***************************************************************************)
Ended == phase \in {"done", "panicked"}

\* The absolute address of a CommonCfg field, and of a byte offset of the
\* notify-region window.
CommonAddr(field) == WrapAdd(self.common_cfg.paddr, offset_of(field))
NotifyAddr(off) == WrapAdd(self.notify_region.paddr, U64(off))

WriteEntry(address, data) ==
    [kind |-> "write", address |-> address, size |-> Len(data), data |-> data]

IsRead(e, address, size) ==
    e.kind = "read" /\ e.address = address /\ e.size = size

\* e is a write that covers a byte of the queue_enable field.
WritesQueueEnable(e) ==
    /\ e.kind = "write"
    /\ InRegion(e.address, self.common_cfg)
    /\ Small(WrapSub(e.address, self.common_cfg.paddr)) < 30
    /\ Small(WrapSub(e.address, self.common_cfg.paddr)) + e.size > 28

\* C1: queue_set(q, size, desc, driver, device) runs to completion, and a
\* queue_used(q) called immediately after it returns true.
C1_QueueSetThenUsed ==
    /\ call.op = "queue_set" => ~panicked
    /\ (phase = "done" /\ call.op = "queue_used" /\ lastSet = call.queue) => ret.b

\* C2: a queue_set(q, ...) that has ended has issued exactly the writes
\* queue_select = q, queue_size, queue_desc, queue_driver, queue_device,
\* queue_enable = 1, in this order.
C2_QueueSetWriteOrder ==
    (call.op = "queue_set" /\ Ended) =>
        log = << WriteEntry(CommonAddr("queue_select"), U16(call.queue)),
                 WriteEntry(CommonAddr("queue_size"), SubSeq(call.arg.size, 1, 2)),
                 WriteEntry(CommonAddr("queue_desc"), call.arg.descriptors),
                 WriteEntry(CommonAddr("queue_driver"), call.arg.driver_area),
                 WriteEntry(CommonAddr("queue_device"), call.arg.device_area),
                 WriteEntry(CommonAddr("queue_enable"), U16(1)) >>

\* C3: no operation writes a value other than 1 to queue_enable, queue_unset
\* issues no register access, and once queue_used(q) has returned true every
\* later queue_used(q) returns true.
C3_MonotonicEnable ==
    /\ \A i \in 1 .. Len(log) :
          WritesQueueEnable(log[i]) =>
              log[i] = WriteEntry(CommonAddr("queue_enable"), U16(1))
    /\ call.op = "queue_unset" => (log = <<>> /\ ~panicked)
    /\ \A q \in usedSeen : dev.queue[q].queue_enable = U16(1)
    /\ (Ended /\ call.op = "queue_used" /\ call.queue \in usedSeen) =>
          (phase = "done" /\ ret.b)

\* C3 witness: queue_used(q) returns true again after it returned true before.
C3_UsedAgain ==
    /\ phase = "done"
    /\ call.op = "queue_used"
    /\ call.queue \in usedSeen
    /\ ret.b

\* C4: write_driver_features(v) writes v's low 32 bits under select 0 and its
\* high 32 bits under select 1; read_device_features() returns
\* (word read under select 1 << 32) | (word read under select 0); and on the
\* echoing device it returns the v last written.
C4_FeatureRoundTrip ==
    /\ (call.op = "write_driver_features" /\ Ended) =>
          /\ phase = "done"
          /\ log = << WriteEntry(CommonAddr("driver_feature_select"), U32(0)),
                      WriteEntry(CommonAddr("driver_feature"), SubSeq(call.arg, 1, 4)),
                      WriteEntry(CommonAddr("driver_feature_select"), U32(1)),
                      WriteEntry(CommonAddr("driver_feature"), SubSeq(call.arg, 5, 8)) >>
    /\ (call.op = "read_device_features" /\ Ended) =>
          /\ phase = "done"
          /\ Len(log) = 4
          /\ log[1] = WriteEntry(CommonAddr("device_feature_select"), U32(0))
          /\ IsRead(log[2], CommonAddr("device_feature"), 4)
          /\ log[3] = WriteEntry(CommonAddr("device_feature_select"), U32(1))
          /\ IsRead(log[4], CommonAddr("device_feature"), 4)
          /\ ret.v = log[2].data \o log[4].data
          /\ written # <<>> => ret.v = written

\* C4 witness: read_device_features returns a value written before, whose
\* two halves differ.
C4_ReadBack ==
    /\ phase = "done"
    /\ call.op = "read_device_features"
    /\ written # <<>>
    /\ ret.v = written
    /\ SubSeq(written, 1, 4) # SubSeq(written, 5, 8)

\* C5 (as stated): a notify(q) that has ended has written queue_select = q,
\* read queue_notify_off, and written the 16-bit q at byte offset
\* queue_notify_off * notify_off_multiplier of the notify window, whatever
\* queue_notify_off the device reported.
C5_NotifyAlwaysWrites ==
    (call.op = "notify" /\ Ended) =>
        /\ Len(log) = 3
        /\ log[1] = WriteEntry(CommonAddr("queue_select"), U16(call.queue))
        /\ IsRead(log[2], CommonAddr("queue_notify_off"), 2)
        /\ log[3] = WriteEntry(
                NotifyAddr(Small(log[2].data) * Small(self.notify_off_multiplier)),
                U16(call.queue))

\* C5 (amended): notify(q) writes queue_select = q and reads
\* queue_notify_off; when queue_notify_off * notify_off_multiplier + 2 is at
\* most the notify window's size it then writes the 16-bit q at that byte
\* offset of the window and returns; otherwise it panics on the window's
\* bounds check without issuing a notify write.
C5_NotifyInWindow ==
    (call.op = "notify" /\ Ended) =>
        /\ Len(log) >= 2
        /\ log[1] = WriteEntry(CommonAddr("queue_select"), U16(call.queue))
        /\ IsRead(log[2], CommonAddr("queue_notify_off"), 2)
        /\ IF Small(log[2].data) * Small(self.notify_off_multiplier) + 2
                <= Small(self.notify_region.size)
           THEN /\ phase = "done"
                /\ Len(log) = 3
                /\ log[3] = WriteEntry(
                       NotifyAddr(Small(log[2].data)
                                  * Small(self.notify_off_multiplier)),
                       U16(call.queue))
           ELSE /\ panicked
                /\ Len(log) = 2

\* C5 witness: with queue_notify_off = 3 and multiplier 4, notify has written
\* at byte offset 12 of the notify window.
C5_NotifyAt12 ==
    /\ phase = "done"
    /\ call.op = "notify"
    /\ log[2].data = U16(3)
    /\ self.notify_off_multiplier = U32(4)
    /\ log[3].address = NotifyAddr(12)

\* C6: ack_interrupt() performs exactly one 1-byte read at offset 0 of the
\* ISR-status window and returns true iff bit 0 or bit 1 of the byte read is
\* set; with no interrupt raised since the previous ack_interrupt it returns
\* false.
C6_AckInterrupt ==
    (call.op = "ack_interrupt" /\ Ended) =>
        /\ phase = "done"
        /\ Len(log) = 1
        /\ IsRead(log[1], self.isr_status.paddr, 1)
        /\ ret.b = (log[1].data[1] % 4 # 0)
        /\ drained => ~ret.b

\* C6 witness: a second ack_interrupt with no new interrupt has returned false.
C6_SecondAckFalse ==
    /\ phase = "done"
    /\ call.op = "ack_interrupt"
    /\ drained
    /\ ~ret.b

\* offset + size_of(T) > window.size as a sum of natural numbers, for the
\* config-space call in progress.
CallExceedsWindow ==
    \/ AddOverflows(call.arg.offset, U64(call.T.size))
    \/ Lt(self.config_space.v.size, WrapAdd(call.arg.offset, U64(call.T.size)))

CallAligned == call.T.align <= 4 /\ call.arg.offset[1] % call.T.align = 0

IsConfigCall == call.op \in {"read_config_space", "write_config_space"}

\* C7: with a device-config window, for T with align_of(T) <= 4 and offset a
\* multiple of align_of(T), read_config_space and write_config_space return
\* ConfigSpaceTooSmall iff offset + size_of(T) > window.size and otherwise
\* succeed with one typed access of the window at that offset.
C7_ConfigSpaceBounds ==
    (IsConfigCall /\ Ended /\ self.config_space.tag = "Some" /\ CallAligned) =>
        IF CallExceedsWindow
        THEN /\ phase = "done"
             /\ ret.tag = "Err"
             /\ ret.e.kind = "ConfigSpaceTooSmall"
             /\ log = <<>>
        ELSE /\ phase = "done"
             /\ ret.tag = "Ok"
             /\ Len(log) = 1
             /\ log[1].kind = (IF call.op = "read_config_space" THEN "read" ELSE "write")
             /\ log[1].address = WrapAdd(self.config_space.v.paddr, call.arg.offset)
             /\ log[1].size = call.T.size

\* C8 (as stated): without a device-config window every read_config_space
\* and write_config_space call, for any type and offset, returns
\* ConfigSpaceMissing and never panics.
C8_MissingForAnyType ==
    (IsConfigCall /\ Ended /\ self.config_space.tag = "None") =>
        /\ phase = "done"
        /\ ret.tag = "Err"
        /\ ret.e.kind = "ConfigSpaceMissing"

\* C8 (amended): without a device-config window, read_config_space and
\* write_config_space return ConfigSpaceMissing, issuing no hypercall, for
\* every T with align_of(T) <= 4 and every offset that is a multiple of
\* align_of(T); for any other type or offset they panic on their alignment
\* assertions.
C8_MissingWhenAligned ==
    (IsConfigCall /\ Ended /\ self.config_space.tag = "None") =>
        /\ log = <<>>
        /\ IF CallAligned
           THEN /\ phase = "done"
                /\ ret.tag = "Err"
                /\ ret.e.kind = "ConfigSpaceMissing"
           ELSE panicked

\* C8 witness: read_config_space has returned ConfigSpaceMissing on a
\* transport without a device-config window.
C8_MissingReturned ==
    /\ phase = "done"
    /\ call.op = "read_config_space"
    /\ self.config_space.tag = "None"
    /\ ret.tag = "Err"
    /\ ret.e.kind = "ConfigSpaceMissing"

\* offset + length > bar_size as a sum of natural numbers, for the
\* capability record of the last resolution.
ResolveExceedsBar ==
    \/ AddOverflows(res_in.offset, res_in.length)
    \/ Lt(Bars[res_in.bar].size, WrapAdd(res_in.offset, res_in.length))

\* base + offset of the last resolution.
ResolveAddress == WrapAdd(Bars[res_in.bar].address, Widen(res_in.offset, 8))

\* The outcome the decision order names for the last resolution.
ResolveExpected ==
    IF Bars[res_in.bar].kind = "IO" THEN Err([kind |-> "UnexpectedIoBar"])
    ELSE IF Bars[res_in.bar].address = U64(0)
         THEN Err([kind |-> "BarNotAllocated", bar |-> res_in.bar])
    ELSE IF ResolveExceedsBar \/ Lt(Widen(res_in.length, 8), U64(res_in.T.size))
         THEN Err([kind |-> "BarOffsetOutOfRange"])
    ELSE IF ResolveAddress[1] % res_in.T.align # 0
         THEN Err([kind |-> "Misaligned", address |-> ResolveAddress,
                   alignment |-> res_in.T.align])
    ELSE Ok([paddr |-> ResolveAddress, size |-> Widen(res_in.length, 8)])

\* C9: resolving a capability record against its BAR for type T yields the
\* one outcome decided in the order: UnexpectedIoBar, BarNotAllocated(bar),
\* BarOffsetOutOfRange, Misaligned{base + offset, align_of(T)}, else the
\* window {paddr = base + offset, size = length}.
C9_ResolveOutcome ==
    (res_in.tag = "input" /\ res_in.bar \in DOMAIN Bars) =>
        /\ res_out.tag = ResolveExpected.tag
        /\ res_out = ResolveExpected

\* C10: on an allocated memory BAR, a record whose offset + length exceeds
\* the BAR's size resolves to BarOffsetOutOfRange, also when the sum needs
\* more than 32 bits; and no window ends beyond the end of its BAR.
C10_ResolveWithinBar ==
    (/\ res_in.tag = "input"
     /\ res_in.bar \in DOMAIN Bars
     /\ Bars[res_in.bar].kind = "Memory"
     /\ Bars[res_in.bar].address # U64(0)) =>
        /\ ResolveExceedsBar =>
              (res_out.tag = "Err" /\ res_out.e.kind = "BarOffsetOutOfRange")
        /\ res_out.tag = "Ok" =>
              Le(WrapAdd(res_out.v.paddr, res_out.v.size),
                 WrapAdd(Bars[res_in.bar].address, Widen(Bars[res_in.bar].size, 8)))

(***************************************************************************)
(* Properties of construction.  They compare what new() returned (built)   *)
(* with the capability list of the PCI function it was called on.          *)
(***************************************************************************)
Caps == device_function.caps

\* Capability i of the list is vendor-specific and of subtype cfg_type.
OfSubtype(i, cfg_type) ==
    /\ Caps[i].id = PCI_CAP_ID_VNDR
    /\ Caps[i].private_header[2] = cfg_type

\* It also declares a structure length of at least 16 bytes, 20 for notify.
Retained(i, cfg_type) ==
    /\ OfSubtype(i, cfg_type)
    /\ Caps[i].private_header[1] >=
          (IF cfg_type = VIRTIO_PCI_CAP_NOTIFY_CFG THEN 20 ELSE 16)

\* The index of the first capability of the list that satisfies P, 0 if none.
First(P(_, _), cfg_type) ==
    IF \E i \in 1 .. Len(Caps) : P(i, cfg_type)
    THEN CHOOSE i \in 1 .. Len(Caps) :
            P(i, cfg_type) /\ \A j \in 1 .. (i - 1) : ~P(j, cfg_type)
    ELSE 0

\* The window a capability's record names: {BAR base + offset, length}.
WindowFrom(capability) ==
    [paddr |-> WrapAdd(device_function.bars[capability.bar[1]].address,
                       Widen(capability.offset, 8)),
     size |-> Widen(capability.length, 8)]

\* The built transport's windows and multiplier are those of the capabilities
\* that are first, by P, of their subtypes.
ChosenBy(P(_, _)) ==
    /\ built.v.common_cfg = WindowFrom(Caps[First(P, VIRTIO_PCI_CAP_COMMON_CFG)])
    /\ built.v.notify_region = WindowFrom(Caps[First(P, VIRTIO_PCI_CAP_NOTIFY_CFG)])
    /\ built.v.notify_off_multiplier =
          Caps[First(P, VIRTIO_PCI_CAP_NOTIFY_CFG)].multiplier
    /\ built.v.isr_status = WindowFrom(Caps[First(P, VIRTIO_PCI_CAP_ISR_CFG)])
    /\ built.v.config_space =
          IF First(P, VIRTIO_PCI_CAP_DEVICE_CFG) = 0 THEN None
          ELSE Some(WindowFrom(Caps[First(P, VIRTIO_PCI_CAP_DEVICE_CFG)]))

\* C11 (as stated): the windows and the multiplier of a built transport are
\* those of the first vendor-specific capability of each subtype in list
\* order, whatever structure length that capability declares.
C11_FirstOfSubtype == built.tag = "Ok" => ChosenBy(OfSubtype)

\* C11 (amended): the windows and the multiplier of a built transport are
\* those of the first vendor-specific capability of each subtype in list
\* order that declares a structure length of at least 16 bytes (20 for
\* notify); shorter capabilities are skipped and later ones of the subtype
\* change nothing.
C11_FirstRetained == built.tag = "Ok" => ChosenBy(Retained)

\* C11 witness: a transport was built from a list with two notify
\* capabilities of sufficient length that differ in offset and multiplier,
\* and it has the multiplier of the first.
C11_DuplicateNotify ==
    /\ built.tag = "Ok"
    /\ \E i, j \in 1 .. Len(Caps) :
          /\ i < j
          /\ Retained(i, VIRTIO_PCI_CAP_NOTIFY_CFG)
          /\ Retained(j, VIRTIO_PCI_CAP_NOTIFY_CFG)
          /\ Caps[i].offset # Caps[j].offset
          /\ Caps[i].multiplier # Caps[j].multiplier
          /\ built.v.notify_off_multiplier = Caps[i].multiplier

\* The vendor ID is the VirtIO one.
VendorValid == device_function.vendor_id = U16(VIRTIO_VENDOR_ID)

\* No capability of the subtype with a sufficient structure length is listed.
Missing(cfg_type) == First(Retained, cfg_type) = 0

\* What get_bar_region yields for the chosen capability of the subtype.
Resolved(cfg_type, T) ==
    get_bar_region(device_function.bars, T,
                   [bar |-> Caps[First(Retained, cfg_type)].bar[1],
                    offset |-> Caps[First(Retained, cfg_type)].offset,
                    length |-> Caps[First(Retained, cfg_type)].length],
                   overflow_checks)

\* The multiplier of the chosen notify capability.
Multiplier == Caps[First(Retained, VIRTIO_PCI_CAP_NOTIFY_CFG)].multiplier

InvalidVendorId == Err([kind |-> "InvalidVendorId", vendor_id |-> device_function.vendor_id])
MissingError(name) == Err([kind |-> name])

\* new() gets as far as its lookup of the notify capability, of the ISR
\* capability, of the device-config capability: every step before succeeded.
ReachesNotify ==
    /\ VendorValid
    /\ ~Missing(VIRTIO_PCI_CAP_COMMON_CFG)
    /\ Resolved(VIRTIO_PCI_CAP_COMMON_CFG, CommonCfgType).tag = "Ok"

ReachesIsr ==
    /\ ReachesNotify
    /\ ~Missing(VIRTIO_PCI_CAP_NOTIFY_CFG)
    /\ Multiplier[1] % 2 = 0
    /\ Resolved(VIRTIO_PCI_CAP_NOTIFY_CFG, TypeU16).tag = "Ok"

ReachesDevice ==
    /\ ReachesIsr
    /\ ~Missing(VIRTIO_PCI_CAP_ISR_CFG)
    /\ Resolved(VIRTIO_PCI_CAP_ISR_CFG, TypeU8).tag = "Ok"

\* C12 (as stated): new() returns InvalidVendorId when the vendor ID is not
\* the VirtIO one, and MissingCommonConfig / MissingNotifyConfig /
\* MissingIsrConfig when no capability of that subtype with structure length
\* >= 16 (>= 20 for notify) is listed; without a device-config capability a
\* transport that is built has no device-config window; with one that does
\* not resolve, construction fails.
C12_ErrorPerCondition ==
    built # NoBuilt =>
        /\ ~VendorValid => built = InvalidVendorId
        /\ Missing(VIRTIO_PCI_CAP_COMMON_CFG) => built = MissingError("MissingCommonConfig")
        /\ Missing(VIRTIO_PCI_CAP_NOTIFY_CFG) => built = MissingError("MissingNotifyConfig")
        /\ Missing(VIRTIO_PCI_CAP_ISR_CFG) => built = MissingError("MissingIsrConfig")
        /\ (Missing(VIRTIO_PCI_CAP_DEVICE_CFG) /\ built.tag = "Ok") =>
              built.v.config_space = None
        /\ (/\ ~Missing(VIRTIO_PCI_CAP_DEVICE_CFG)
            /\ Resolved(VIRTIO_PCI_CAP_DEVICE_CFG, TypeU32).tag # "Ok") =>
              built.tag # "Ok"

\* C12 (amended): new() fails at the first failing step of the order vendor
\* ID, common-config capability and its resolution, notify capability, parity
\* of the multiplier, notify resolution, ISR capability and its resolution,
\* device-config resolution: InvalidVendorId for a foreign vendor ID; else
\* MissingCommonConfig; MissingNotifyConfig when the common window resolved;
\* MissingIsrConfig when also the notify window resolved with an even
\* multiplier; and when the three windows resolved, a missing device-config
\* capability builds a transport without a device-config window and one that
\* does not resolve fails construction with its resolution's outcome.
C12_FirstFailingStep ==
    built # NoBuilt =>
        /\ ~VendorValid => built = InvalidVendorId
        /\ (VendorValid /\ Missing(VIRTIO_PCI_CAP_COMMON_CFG)) =>
              built = MissingError("MissingCommonConfig")
        /\ (ReachesNotify /\ Missing(VIRTIO_PCI_CAP_NOTIFY_CFG)) =>
              built = MissingError("MissingNotifyConfig")
        /\ (ReachesIsr /\ Missing(VIRTIO_PCI_CAP_ISR_CFG)) =>
              built = MissingError("MissingIsrConfig")
        /\ (ReachesDevice /\ Missing(VIRTIO_PCI_CAP_DEVICE_CFG)) =>
              (built.tag = "Ok" /\ built.v.config_space = None)
        /\ (/\ ReachesDevice
            /\ ~Missing(VIRTIO_PCI_CAP_DEVICE_CFG)
            /\ Resolved(VIRTIO_PCI_CAP_DEVICE_CFG, TypeU32).tag # "Ok") =>
              built = Resolved(VIRTIO_PCI_CAP_DEVICE_CFG, TypeU32)

\* C12 witness: new() has returned MissingNotifyConfig for a list whose only
\* notify capability declares a structure of 16 bytes, with no ISR capability
\* at all.
C12_ShortNotifyMissing ==
    /\ built = MissingError("MissingNotifyConfig")
    /\ \E i \in 1 .. Len(Caps) : OfSubtype(i, VIRTIO_PCI_CAP_NOTIFY_CFG)
    /\ Missing(VIRTIO_PCI_CAP_ISR_CFG)

\* C13 (as stated): a transport that was built has an even
\* notify_off_multiplier, which it keeps; and whenever the list has a notify
\* capability of sufficient length whose multiplier is odd, new() has
\* returned InvalidNotifyOffMultiplier with that multiplier.
C13_OddAlwaysInvalid ==
    /\ built.tag = "Ok" =>
          (self = built.v /\ self.notify_off_multiplier[1] % 2 = 0)
    /\ (/\ phase = "failed"
        /\ VendorValid
        /\ ~Missing(VIRTIO_PCI_CAP_NOTIFY_CFG)
        /\ Multiplier[1] % 2 # 0) =>
          built = Err([kind |-> "InvalidNotifyOffMultiplier",
                       multiplier |-> Multiplier])

\* C13 (amended): a transport that was built has an even
\* notify_off_multiplier, which it keeps; and whenever new() gets as far as
\* its notify capability (valid vendor ID, common-config window resolved)
\* and the multiplier of that capability is odd, new() has returned
\* InvalidNotifyOffMultiplier with that multiplier.
C13_EvenMultiplier ==
    /\ built.tag = "Ok" =>
          (self = built.v /\ self.notify_off_multiplier[1] % 2 = 0)
    /\ (/\ phase = "failed"
        /\ ReachesNotify
        /\ ~Missing(VIRTIO_PCI_CAP_NOTIFY_CFG)
        /\ Multiplier[1] % 2 # 0) =>
          built = Err([kind |-> "InvalidNotifyOffMultiplier",
                       multiplier |-> Multiplier])

\* C13 witness: new() has returned InvalidNotifyOffMultiplier(3).
C13_OddRejected ==
    /\ phase = "failed"
    /\ built = Err([kind |-> "InvalidNotifyOffMultiplier", multiplier |-> U32(3)])

(***************************************************************************)
(* Properties of the selected-queue register.                              *)
(***************************************************************************)
ScopedOps == {"max_queue_size", "queue_set", "queue_used", "notify"}

\* The CommonCfg field a hypercall at address starts at.
FieldOfEntry(e) == FieldAt[Small(WrapSub(e.address, self.common_cfg.paddr))].name

\* The queue-scoped operation in progress or just ended has selected its
\* own queue before anything else, the device still selects that queue, the
\* value of each scoped access is the value of that queue's field, and what
\* the operation returned or notified is taken from that queue's fields.
ScopedToOwnQueue ==
    (call.op \in ScopedOps /\ (Len(log) >= 1 \/ Ended)) =>
        /\ Len(log) >= 1
        /\ log[1] = WriteEntry(CommonAddr("queue_select"), U16(call.queue))
        /\ dev.queue_select = U16(call.queue)
        /\ \A i \in 2 .. Len(log) :
              InRegion(log[i].address, self.common_cfg) =>
                  log[i].data = dev.queue[call.queue][FieldOfEntry(log[i])]
        /\ (call.op = "notify" /\ Len(log) = 3) =>
              log[3].address =
                  NotifyAddr(Small(dev.queue[call.queue].queue_notify_off)
                             * Small(self.notify_off_multiplier))
        /\ (call.op = "max_queue_size" /\ phase = "done") =>
              ret.v = Widen(dev.queue[call.queue].queue_size, 4)
        /\ (call.op = "queue_used" /\ phase = "done") =>
              ret.b = (dev.queue[call.queue].queue_enable = U16(1))

\* A step of a queue-scoped operation leaves the fields of every other queue
\* as they were.
OtherQueuesKept ==
    call'.op \in ScopedOps =>
        \A q \in Queues : q # call'.queue => dev'.queue[q] = dev.queue[q]

\* C14: under single-owner use each of max_queue_size, queue_set, queue_used
\* and notify called with queue q first writes queue_select = q, and every
\* scoped access it then makes reads or writes a field of queue q, whatever
\* queue was selected before; the fields of the other queues are untouched.
C14_SelectThenAccess == []ScopedToOwnQueue /\ [][OtherQueuesKept]_vars

\* C14 witness: queue_used(1) has returned false, read from queue 1's
\* queue_enable, while queue 0, which the device selected at first, is
\* enabled.
C14_UsedOfOwnQueue ==
    /\ phase = "done"
    /\ call.op = "queue_used"
    /\ call.queue = 1
    /\ ~ret.b
    /\ dev.queue[0].queue_enable = U16(1)

(***************************************************************************)
(* Properties of shared use.                                               *)
(***************************************************************************)
\* C15 (as stated, the part that is a statement about every run): no lock
\* keeps the two callers apart, so a queue_set(q1) that another caller's
\* select write has cut in on still runs to its end, where it writes
\* queue_enable = 1 to the queue the device then selects.
C15_QueueSetEnablesSelected ==
    (call.op = "queue_set" /\ Ended) =>
        /\ phase = "done"
        /\ log[Len(log)] = WriteEntry(CommonAddr("queue_enable"), U16(1))

\* C15: states the claim says can be reached.  max_queue_size(q1) has
\* returned the queue_size of another queue, which differs from q1's.
C15_ForeignSize ==
    /\ phase = "done"
    /\ call.op = "max_queue_size"
    /\ \E q \in Queues :
          /\ q # call.queue
          /\ dev.queue[q].queue_size # dev.queue[call.queue].queue_size
          /\ ret.v = Widen(dev.queue[q].queue_size, 4)

\* C15: queue_set(q1) has written its queue_size to another queue.
C15_ForeignWrite ==
    /\ call.op = "queue_set"
    /\ Len(log) = 2
    /\ \E q \in Queues :
          /\ q # call.queue
          /\ dev.queue[q].queue_size = log[2].data
          /\ dev.queue[call.queue].queue_size # log[2].data

\* C15: read_device_features has returned a value whose two halves are both
\* the low word of the features written, which differs from the high word.
C15_SameSelectHalves ==
    /\ phase = "done"
    /\ call.op = "read_device_features"
    /\ written # <<>>
    /\ SubSeq(written, 1, 4) # SubSeq(written, 5, 8)
    /\ ret.v = SubSeq(written, 1, 4) \o SubSeq(written, 1, 4)

\* C15: queue_set has written queue_enable.
C15_QueueSetWroteEnable ==
    /\ call.op = "queue_set"
    /\ \E i \in 1 .. Len(log) : WritesQueueEnable(log[i])

(***************************************************************************)
(* Properties of the hypercalls issued.                                    *)
(***************************************************************************)
\* C16: the address of every hypercall issued through a transport that was
\* built is a multiple of the hypercall's size, the size of the accessed
\* type.
C16_AddressMultipleOfSize ==
    \A i \in 1 .. Len(log) : log[i].address[1] % log[i].size = 0

\* The window the i-th hypercall of the operation was issued through.
RegionOfAccess(i) ==
    Instr(call, self, overflow_checks, SubSeq(log, 1, i - 1)).region

\* The byte range of hypercall e lies inside the window region.
InsideWindow(e, region) ==
    /\ ~AddOverflows(WrapSub(e.address, region.paddr), U64(e.size))
    /\ Le(WrapAdd(WrapSub(e.address, region.paddr), U64(e.size)), region.size)

\* C17: every hypercall issued by a window access has a size below 8 bytes
\* and a byte range inside that window; and a notify() that stopped at the
\* window's fatal check has issued no hypercall after its read of
\* queue_notify_off.
C17_HypercallInsideWindow ==
    /\ \A i \in 1 .. Len(log) :
          /\ log[i].size < HYP_IO_MAX
          /\ InsideWindow(log[i], RegionOfAccess(i))
    /\ (call.op = "notify" /\ panicked) => Len(log) = 2

\* The operations whose accesses resolution is said to keep in bounds.
BoundedOps ==
    {"read_device_features", "write_driver_features", "max_queue_size",
     "queue_used", "get_status", "set_status", "read_config_generation",
     "ack_interrupt"}

\* C18: the common-config window of a transport that was built is at least
\* as long as CommonCfg and its ISR window at least one byte; and none of
\* read_device_features, write_driver_features, max_queue_size, queue_used,
\* get_status, set_status, read_config_generation and ack_interrupt panics:
\* each hypercall they issue is 1, 2 or 4 bytes wide and they run to their
\* return.
C18_BoundedOpsNeverPanic ==
    /\ built.tag = "Ok" =>
          /\ Le(U64(CommonCfgType.size), self.common_cfg.size)
          /\ Le(U64(1), self.isr_status.size)
    /\ call.op \in BoundedOps =>
          /\ ~panicked
          /\ \A i \in 1 .. Len(log) : log[i].size \in {1, 2, 4}

\* C18 witness: max_queue_size has returned on a transport whose
\* common-config window is exactly as long as CommonCfg and whose ISR window
\* is one byte.
C18_ExactWindows ==
    /\ phase = "done"
    /\ call.op = "max_queue_size"
    /\ Len(log) = 2
    /\ self.common_cfg.size = U64(CommonCfgType.size)
    /\ self.isr_status.size = U64(1)

(***************************************************************************)
(* Frame properties of the operations.                                     *)
(***************************************************************************)
\* The operations said to issue no write hypercall.
WritelessOps ==
    {"get_status", "read_config_generation", "device_type",
     "requires_legacy_layout", "set_guest_page_size", "queue_unset"}

\* Hypercall e touches a byte of the ISR-status window.
TouchesIsr(e) ==
    \E k \in 0 .. (e.size - 1) : InRegion(WrapAdd(e.address, U64(k)), self.isr_status)

\* Only ack_interrupt has issued a hypercall that touches the ISR-status
\* window, and the writeless operations have issued no write.
IsrOnlyByAck ==
    /\ call.op # "ack_interrupt" => \A i \in 1 .. Len(log) : ~TouchesIsr(log[i])
    /\ call.op \in WritelessOps => \A i \in 1 .. Len(log) : log[i].kind = "read"

\* A step that clears a pending interrupt cause is a step of ack_interrupt,
\* and a step of a writeless operation keeps the selected queue and the
\* feature-select indices.
ClearedOnlyByAck ==
    /\ (dev.isr # U8(0) /\ dev'.isr = U8(0)) => call'.op = "ack_interrupt"
    /\ call'.op \in WritelessOps =>
          /\ dev'.queue_select = dev.queue_select
          /\ dev'.device_feature_select = dev.device_feature_select
          /\ dev'.driver_feature_select = dev.driver_feature_select

\* C19: ack_interrupt is the only operation that accesses the ISR-status
\* window; get_status, read_config_generation, device_type,
\* requires_legacy_layout, set_guest_page_size and queue_unset issue no write
\* hypercall; so over any sequence of operations a pending interrupt cause is
\* cleared only by ack_interrupt, and those operations leave the selected
\* queue and the feature-select indices unchanged.
C19_FrameOfOperations == []IsrOnlyByAck /\ [][ClearedOnlyByAck]_vars

\* A read_config_space or write_config_space call has returned one of its
\* two errors.
ConfigCallFailed ==
    /\ IsConfigCall
    /\ phase = "done"
    /\ ret.tag = "Err"
    /\ ret.e.kind \in {"ConfigSpaceMissing", "ConfigSpaceTooSmall"}

\* C20: a read_config_space or write_config_space call that returns
\* ConfigSpaceMissing or ConfigSpaceTooSmall has issued no hypercall, and the
\* device's registers and the transport's fields are after the call what
\* they were before it.
C20_FailedConfigCallNoEffect ==
    /\ [](ConfigCallFailed => log = <<>>)
    /\ [][ConfigCallFailed' => (dev' = dev /\ self' = self)]_vars

\* C20 witness: write_config_space has returned ConfigSpaceTooSmall on a
\* transport with a device-config window.
C20_TooSmallReturned ==
    /\ ConfigCallFailed
    /\ call.op = "write_config_space"
    /\ ret.e.kind = "ConfigSpaceTooSmall"
    /\ self.config_space.tag = "Some"
    /\ log = <<>>
====
